---- MODULE Spec2Model ----
(***************************************************************************)
(* Health-Care-Compass: a model of the CSV aggregator (DataService), the   *)
(* auth backend (POST /signup, POST /login), the paginated hospital list   *)
(* and the compare selection (HospitalService and the page's main script), *)
(* the data load from the CSV text, the filters, the queries, the          *)
(* comparison chart and the page from its start to the end of initialize.  *)
(*                                                                         *)
(* Each part has its own specification over the same variables (SpecAgg,   *)
(* SpecAuth, SpecPage, SpecCompare, SpecLoad, SpecFilter, SpecQuery,       *)
(* SpecCategory, SpecChart, SpecSession); a specification leaves the       *)
(* variables of the parts it does not run at their initial value.          *)
(***************************************************************************)
EXTENDS Integers, Sequences, FiniteSets, TLC

VARIABLES
    \* DataService.processHospitalData
    rawHospitalEntries, \* the rows of this.rawHospitalEntries the forEach has visited
    hospitalMap,        \* the local Map, as its entries in insertion order
    foldedInto,         \* per visited row: index in hospitalMap it was folded into, 0 if skipped
    hospitalsData,      \* this.hospitalsData
    aggPc,              \* "loop" while the forEach runs, "done" after Array.from
    \* auth backend
    users,              \* the User collection, in insertion order
    requests,           \* the requests received so far, with their position and response
    \* HospitalService
    variant,            \* which HospitalService class the page loads
    mainScript,         \* which main script the page loads
    filteredHospitals,  \* this.filteredHospitals
    currentPage,        \* this.currentPage
    hospitalsToShow,    \* the cards in hospitalListElement
    pageControls,       \* the data-page values of the rendered pagination items
    selectedHospitals,  \* this.selectedHospitals
    lastClick,          \* the last compare click: did toggleCompare alert, did the document handler push
    chart,              \* chartService.chartInstance: its labels and data, and the hospitals they show
    \* DataService.loadHospitalsData
    dataScript,         \* which DataService class the page loads
    csvText,            \* the lines of data/merged_data.csv read so far, as their cells
    loads,              \* the number of loadHospitalsData calls that have finished
    \* fields written on the aggregates after aggregation, per position in hospitalsData
    ratings,            \* hospital.rating and hospital.reviews
    distance,           \* hospital.distance
    \* DataService queries: the last call of each, with its arguments and its result
    searchCall,         \* searchHospitals(query)
    comparisonCall,     \* compareHospitalCosts(hospitals, treatment)
    categoryCall,       \* getCostCategory(cost, allCosts)
    \* HospitalService filters
    filterValues,       \* the values of the budget, city, distance, rating and sort selects
    userLocation,       \* this.userLocation
    \* HospitalService.initialize and the search form
    initPc,             \* where initialize() is: not called, awaiting the data, awaiting the location, done
    lastSearch,         \* the last handleSearch: its inputs and the hospitals it found
    pendingApply        \* a change event has run one of its two listeners

aggVars == <<rawHospitalEntries, hospitalMap, foldedInto, hospitalsData, aggPc>>
authVars == <<users, requests>>
listVars == <<variant, mainScript, filteredHospitals, currentPage, hospitalsToShow,
              pageControls>>
compareVars == <<selectedHospitals, lastClick, chart>>
loadVars == <<dataScript, csvText, loads>>
objVars == <<ratings, distance>>
queryVars == <<searchCall, comparisonCall, categoryCall>>
filterVars == <<filterValues, userLocation>>
sessionVars == <<initPc, lastSearch, pendingApply>>
extVars == <<loadVars, objVars, queryVars, filterVars, sessionVars>>
vars == <<aggVars, authVars, listVars, compareVars, extVars>>

(***************************************************************************)
(* Strings are sequences of one-character strings, so that a template      *)
(* literal is a concatenation and two different pairs of strings can give  *)
(* the same key.                                                           *)
(***************************************************************************)
Empty == <<>>
sA == <<"A">>
sB == <<"B">>
sX == <<"X">>
sY == <<"Y">>
sAX == <<"A", "-", "X">>
sXY == <<"X", "-", "Y">>
sKnee == <<"K", "n", "e", "e">>
sHip == <<"H", "i", "p">>
sAll == <<"a", "l", "l">>
UnknownTreatment == <<"U", "n", "k", "n", "o", "w", "n", " ", "T", "r", "e", "a", "t", "m", "e", "n", "t">>

\* bounds of the model
MaxRows == 3

RECURSIVE Gcd(_, _)
Gcd(a, b) == IF b = 0 THEN a ELSE Gcd(b, a % b)

\* a / b of two numbers, b > 0: the quotient as a fraction in lowest terms
Quot(a, b) == LET g == Gcd(a, b) IN [n |-> a \div g, d |-> b \div g]

Zero == [n |-> 0, d |-> 1]

\* NaN: costs are naturals in the model, and NaN is the one value that is not
NaN == -1

\* parseFloat(x) || 0 for x a number or NaN: parseFloat gives a number back
\* unchanged, and 0 and NaN are falsy
KeepNaN(x) == x
OrZero(x) == IF x = NaN \/ x = 0 THEN 0 ELSE x

\* String.prototype.trim
RECURSIVE TrimLeft(_)
TrimLeft(s) == IF s # <<>> /\ Head(s) = " " THEN TrimLeft(Tail(s)) ELSE s

RECURSIVE TrimRight(_)
TrimRight(s) ==
    IF s # <<>> /\ s[Len(s)] = " " THEN TrimRight(SubSeq(s, 1, Len(s) - 1)) ELSE s

Trim(s) == TrimRight(TrimLeft(s))

\* the (NAME, CITY) pairs and the (DESCRIPTION, BASE_ENCOUNTER_COST) pairs of the rows
Places ==
    { <<sA, sX>>, <<sB, sY>>, <<sAX, sY>>, <<sA, sXY>>, <<Empty, sX>>, <<sA, Empty>> }

Encounters == { <<sKnee, 1000>>, <<sKnee, 2000>>, <<sHip, 500>> }

Entries ==
    { [NAME |-> p[1], CITY |-> p[2], DESCRIPTION |-> e[1], BASE_ENCOUNTER_COST |-> e[2]] :
        p \in Places, e \in Encounters }

\* `${entry.NAME}-${entry.CITY}`
HospitalKey(name, city) == name \o <<"-">> \o city

\* !entry.NAME || !entry.CITY
SkipNothing(entry) == FALSE
Skipped(entry) == entry.NAME = Empty \/ entry.CITY = Empty

\* index of the entry of a keyed sequence with the key, 0 if none
IndexOf(seq, key) ==
    IF \E i \in 1..Len(seq) : seq[i].key = key
    THEN CHOOSE i \in 1..Len(seq) : seq[i].key = key
    ELSE 0

NewHospital(entry) ==
    [key |-> HospitalKey(entry.NAME, entry.CITY),
     NAME |-> entry.NAME, CITY |-> entry.CITY, treatments |-> <<>>,
     totalCases |-> 0, totalCost |-> 0, averageCost |-> Zero]

NewTreatment(treatment) ==
    [key |-> treatment, count |-> 0, totalCost |-> 0, averageCost |-> Zero]

\* the treatment statistics update of one row
CountWithoutCost(treatments, treatment, cost) ==
    LET withT == IF IndexOf(treatments, treatment) = 0
                 THEN Append(treatments, NewTreatment(treatment))
                 ELSE treatments
        t == IndexOf(withT, treatment)
    IN [withT EXCEPT ![t].count = withT[t].count + 1]
CountTreatment(treatments, treatment, cost) ==
    LET withT == IF IndexOf(treatments, treatment) = 0
                 THEN Append(treatments, NewTreatment(treatment))
                 ELSE treatments
        t == IndexOf(withT, treatment)
        old == withT[t]
    IN [withT EXCEPT ![t] = [old EXCEPT !.count = old.count + 1,
                                        !.totalCost = old.totalCost + cost,
                                        !.averageCost = Quot(old.totalCost + cost,
                                                             old.count + 1)]]

\* the hospital statistics update of one row
StaleAverage(hospital, treatment, cost) ==
    [hospital EXCEPT !.treatments = CountTreatment(hospital.treatments, treatment, cost),
                     !.totalCases = hospital.totalCases + 1,
                     !.totalCost = hospital.totalCost + cost,
                     !.averageCost = IF hospital.totalCases = 0 THEN Zero
                                     ELSE Quot(hospital.totalCost, hospital.totalCases)]
FoldRow(hospital, treatment, cost) ==
    [hospital EXCEPT !.treatments = CountTreatment(hospital.treatments, treatment, cost),
                     !.totalCases = hospital.totalCases + 1,
                     !.totalCost = hospital.totalCost + cost,
                     !.averageCost = Quot(hospital.totalCost + cost,
                                          hospital.totalCases + 1)]

\* the map after the body of the forEach has run on one row
AlwaysCreate(map, entry) ==
    Append(map, FoldRow(NewHospital(entry), Trim(entry.DESCRIPTION),
                        OrZero(entry.BASE_ENCOUNTER_COST)))
ProcessEntry(map, entry) ==
    IF Skipped(entry) THEN map
    ELSE LET key == HospitalKey(entry.NAME, entry.CITY)
             withH == IF IndexOf(map, key) = 0 THEN Append(map, NewHospital(entry)) ELSE map
             h == IndexOf(withH, key)
             treatment == IF entry.DESCRIPTION # Empty THEN Trim(entry.DESCRIPTION)
                          ELSE UnknownTreatment
             cost == OrZero(entry.BASE_ENCOUNTER_COST)
         IN [withH EXCEPT ![h] = FoldRow(withH[h], treatment, cost)]

\* one iteration of rawHospitalEntries.forEach: the next row is an input
ProcessRow ==
    /\ aggPc = "loop"
    /\ Len(rawHospitalEntries) < MaxRows
    /\ \E entry \in Entries :
         /\ rawHospitalEntries' = Append(rawHospitalEntries, entry)
         /\ hospitalMap' = ProcessEntry(hospitalMap, entry)
         /\ foldedInto' = Append(foldedInto,
                IF Skipped(entry) THEN 0
                ELSE IndexOf(hospitalMap', HospitalKey(entry.NAME, entry.CITY)))
    /\ UNCHANGED <<hospitalsData, aggPc>>
    /\ UNCHANGED <<authVars, listVars, compareVars, extVars>>

\* the forEach has visited every row: this.hospitalsData =
\* Array.from(hospitalMap.values()), an array of objects that have no rating,
\* reviews or distance yet
FinishProcess ==
    /\ aggPc = "loop"
    /\ Len(foldedInto) = Len(rawHospitalEntries)
    /\ hospitalsData' = hospitalMap
    /\ aggPc' = "done"
    /\ ratings' = <<>>
    /\ distance' = <<>>
    /\ UNCHANGED <<rawHospitalEntries, hospitalMap, foldedInto>>
    /\ UNCHANGED <<authVars, listVars, compareVars, loadVars, queryVars, filterVars, sessionVars>>

InitAgg ==
    /\ rawHospitalEntries = <<>>
    /\ hospitalMap = <<>>
    /\ foldedInto = <<>>
    /\ hospitalsData = <<>>
    /\ aggPc = "loop"

InitAuth ==
    /\ users = <<>>
    /\ requests = <<>>

InitList ==
    /\ variant = "v3"
    /\ mainScript = "main.js"
    /\ filteredHospitals = <<>>
    /\ currentPage = 1
    /\ hospitalsToShow = <<>>
    /\ pageControls = {}

\* no chart yet: chartInstance = null
NoChart == [created |-> FALSE, labels |-> <<>>, data |-> <<>>, hospitals |-> <<>>]

InitCompare ==
    /\ selectedHospitals = <<>>
    /\ lastClick = [alert |-> FALSE, pushed |-> FALSE]
    /\ chart = NoChart

\* the constructors of DataService and HospitalService, and the selects as the
\* page's markup leaves them
NoCall == [called |-> FALSE]

InitSession ==
    /\ initPc = "created"
    /\ lastSearch = NoCall
    /\ pendingApply = FALSE
DefaultFilters ==
    [budget |-> "any", city |-> sAll, distance |-> "any", rating |-> "any",
     sortBy |-> "recommended"]

InitExt ==
    /\ dataScript = "data-service.js"
    /\ csvText = <<>>
    /\ loads = 0
    /\ ratings = <<>>
    /\ distance = <<>>
    /\ searchCall = NoCall
    /\ comparisonCall = NoCall
    /\ categoryCall = NoCall
    /\ InitSession
    /\ filterValues = DefaultFilters
    /\ userLocation = "null"

NextAgg == ProcessRow \/ FinishProcess

Init == InitAgg /\ InitAuth /\ InitList /\ InitCompare /\ InitExt

SpecAgg == Init /\ [][NextAgg]_vars

(***************************************************************************)
(* Claims about the aggregator, checked under SpecAgg.                     *)
(***************************************************************************)
\* the sum of a field over the treatment entries of a hospital
RECURSIVE SumOver(_, _)
SumOver(treatments, field) ==
    IF treatments = <<>> THEN 0
    ELSE Head(treatments)[field] + SumOver(Tail(treatments), field)

TreatmentsAddUp(hospital) ==
    /\ SumOver(hospital.treatments, "count") = hospital.totalCases
    /\ SumOver(hospital.treatments, "totalCost") = hospital.totalCost
    /\ \A k \in 1..Len(hospital.treatments) : hospital.treatments[k].count >= 1

RowsOf(name, city) ==
    { i \in 1..Len(rawHospitalEntries) :
        /\ ~Skipped(rawHospitalEntries[i])
        /\ rawHospitalEntries[i].NAME = name
        /\ rawHospitalEntries[i].CITY = city }

RECURSIVE CostSum(_)
CostSum(rows) ==
    IF rows = {} THEN 0
    ELSE LET i == CHOOSE r \in rows : TRUE
         IN rawHospitalEntries[i].BASE_ENCOUNTER_COST + CostSum(rows \ {i})

\* the aggregates that exist now: the map while the loop runs, and hospitalsData
Aggregates ==
    { hospitalMap[i] : i \in 1..Len(hospitalMap) } \cup
    { hospitalsData[i] : i \in 1..Len(hospitalsData) }

\* C1: after each row, and when aggregation has finished, every aggregate that
\* has received a row has averageCost = totalCost / totalCases (the stored
\* fraction n/d times totalCases is totalCost).
C1_AverageIsTotalOverCases ==
    \A h \in Aggregates :
        /\ h.totalCases >= 1
        /\ h.averageCost.d >= 1
        /\ h.averageCost.n * h.totalCases = h.totalCost * h.averageCost.d

C1_Witness ==
    /\ aggPc = "done"
    /\ \E i \in 1..Len(hospitalsData) :
         /\ hospitalsData[i].totalCases = 3
         /\ hospitalsData[i].totalCost = 3500

\* C2: no two aggregates carry the same (NAME, CITY), and a row whose NAME and
\* CITY equal those of an earlier row is folded into the aggregate the earlier
\* row was folded into.
C2_KeyStable ==
    /\ \A i, j \in 1..Len(hospitalMap) :
         (hospitalMap[i].NAME = hospitalMap[j].NAME /\ hospitalMap[i].CITY = hospitalMap[j].CITY)
            => i = j
    /\ \A i, j \in 1..Len(hospitalsData) :
         (hospitalsData[i].NAME = hospitalsData[j].NAME
            /\ hospitalsData[i].CITY = hospitalsData[j].CITY) => i = j
    /\ \A i, j \in 1..Len(rawHospitalEntries) :
         (/\ i < j
          /\ ~Skipped(rawHospitalEntries[i])
          /\ rawHospitalEntries[i].NAME = rawHospitalEntries[j].NAME
          /\ rawHospitalEntries[i].CITY = rawHospitalEntries[j].CITY)
            => (foldedInto[j] = foldedInto[i] /\ foldedInto[j] \in 1..Len(hospitalMap))

C2_Witness ==
    /\ aggPc = "done"
    /\ Len(rawHospitalEntries) = 3
    /\ Len(hospitalsData) = 1
    /\ hospitalsData[1].totalCases = 3

\* C3: every aggregate's totalCases is the number of non-skipped rows with the
\* aggregate's (NAME, CITY), and its totalCost is the sum of those rows' costs.
C3_TotalsMatchRows ==
    \A h \in Aggregates :
        /\ h.totalCases = Cardinality(RowsOf(h.NAME, h.CITY))
        /\ h.totalCost = CostSum(RowsOf(h.NAME, h.CITY))

\* C4: there are as many aggregates as distinct (NAME, CITY) pairs among the
\* non-skipped rows, and rows that differ in NAME or CITY are never folded into
\* the same aggregate.
C4_OneAggregatePerPair ==
    /\ Len(hospitalMap) =
         Cardinality({ <<rawHospitalEntries[i].NAME, rawHospitalEntries[i].CITY>> :
                         i \in { k \in 1..Len(rawHospitalEntries) :
                                   ~Skipped(rawHospitalEntries[k]) } })
    /\ \A i, j \in 1..Len(rawHospitalEntries) :
         (/\ foldedInto[i] # 0
          /\ foldedInto[i] = foldedInto[j])
            => (/\ rawHospitalEntries[i].NAME = rawHospitalEntries[j].NAME
                /\ rawHospitalEntries[i].CITY = rawHospitalEntries[j].CITY)

(***************************************************************************)
(* Auth backend: POST /signup and POST /login over the User collection.    *)
(* A handler runs up to its next await in one step; the awaited database   *)
(* and bcrypt calls of different requests interleave freely.               *)
(***************************************************************************)
MaxRequests == 3

Emails == { "a@x", "b@x" }
Passwords == { "p", "q" }
Salts == { "s1", "s2" }
NoHash == [salt |-> "", digest |-> <<>>]

\* bcrypt.hash(password, 10): a fresh salt, and a digest of salt and password
Hash(password, salt) == [salt |-> salt, digest |-> <<salt, password>>]

\* bcrypt.compare(password, hash): hash the password again with the stored salt
CompareAny(password, hash) == TRUE
Compare(password, hash) == Hash(password, hash.salt).digest = hash.digest

\* User.findOne({ email }): the first stored user with the email, 0 if none
FindOne(email) ==
    IF \E i \in 1..Len(users) : users[i].email = email
    THEN CHOOSE i \in 1..Len(users) :
            /\ users[i].email = email
            /\ \A j \in 1..(i - 1) : users[j].email # email
    ELSE 0

\* the unique index on email (userSchema) refuses a second document with the email
DuplicateKey(email) == \E i \in 1..Len(users) : users[i].email = email

\* the JSON bodies of the responses
NoBody == [message |-> ""]
EmailExists == [message |-> "Email already exists"]
AccountCreated == [message |-> "Account created successfully"]
InternalError == [message |-> "Internal server error"]
InvalidLogin == [message |-> "Invalid email or password"]
UserNotFound == [message |-> "User not found"]
LoginSuccessful(email) == [message |-> "Login successful", email |-> email]

\* res.status(status).json(body)
Respond(r, status, held, body) ==
    requests' = [requests EXCEPT ![r] = [@ EXCEPT !.pc = "done", !.status = status,
                                                  !.held = held, !.body = body]]

\* a request arrives; the handler reads the body and awaits User.findOne
Receive(kind, email, password) ==
    /\ Len(requests) < MaxRequests
    /\ requests' = Append(requests,
          [kind |-> kind, email |-> email, password |-> password, pc |-> "findOne",
           hashed |-> NoHash, status |-> 0, held |-> FALSE, body |-> NoBody])
    /\ UNCHANGED users
    /\ UNCHANGED <<aggVars, listVars, compareVars, extVars>>

PostSignup == \E email \in Emails, password \in Passwords : Receive("signup", email, password)

PostLogin == \E email \in Emails, password \in Passwords : Receive("login", email, password)

\* signup resumes after findOne: 400 if a user exists, else await bcrypt.hash
SignupFindOne(r) ==
    /\ requests[r].kind = "signup" /\ requests[r].pc = "findOne"
    /\ IF FindOne(requests[r].email) # 0
       THEN Respond(r, 400, TRUE, EmailExists)
       ELSE requests' = [requests EXCEPT ![r].pc = "hash"]
    /\ UNCHANGED users
    /\ UNCHANGED <<aggVars, listVars, compareVars, extVars>>

\* signup resumes after bcrypt.hash: new User(...), await user.save()
SignupHash(r) ==
    /\ requests[r].kind = "signup" /\ requests[r].pc = "hash"
    /\ \E salt \in Salts :
         requests' = [requests EXCEPT ![r] = [@ EXCEPT !.pc = "save",
                          !.hashed = Hash(requests[r].password, salt)]]
    /\ UNCHANGED users
    /\ UNCHANGED <<aggVars, listVars, compareVars, extVars>>

\* user.save(): the insert, or the duplicate key error that the catch turns into 500
SaveUnindexed(r) ==
    /\ requests[r].kind = "signup" /\ requests[r].pc = "save"
    /\ users' = Append(users, [email |-> requests[r].email,
                               password |-> requests[r].hashed])
    /\ Respond(r, 201, DuplicateKey(requests[r].email), AccountCreated)
    /\ UNCHANGED <<aggVars, listVars, compareVars, extVars>>
SignupSave(r) ==
    /\ requests[r].kind = "signup" /\ requests[r].pc = "save"
    /\ IF DuplicateKey(requests[r].email)
       THEN /\ Respond(r, 500, TRUE, InternalError)
            /\ UNCHANGED users
       ELSE /\ users' = Append(users, [email |-> requests[r].email,
                                       password |-> requests[r].hashed])
            /\ Respond(r, 201, FALSE, AccountCreated)
    /\ UNCHANGED <<aggVars, listVars, compareVars, extVars>>

\* login resumes after findOne: 401 if no user, else await bcrypt.compare
LoginNamesMissingUser(r) ==
    /\ requests[r].kind = "login" /\ requests[r].pc = "findOne"
    /\ IF FindOne(requests[r].email) = 0
       THEN Respond(r, 401, FALSE, UserNotFound)
       ELSE requests' = [requests EXCEPT ![r] = [@ EXCEPT !.pc = "compare",
                            !.hashed = users[FindOne(requests[r].email)].password]]
    /\ UNCHANGED users
    /\ UNCHANGED <<aggVars, listVars, compareVars, extVars>>
LoginFindOne(r) ==
    /\ requests[r].kind = "login" /\ requests[r].pc = "findOne"
    /\ IF FindOne(requests[r].email) = 0
       THEN Respond(r, 401, FALSE, InvalidLogin)
       ELSE requests' = [requests EXCEPT ![r] = [@ EXCEPT !.pc = "compare",
                            !.hashed = users[FindOne(requests[r].email)].password]]
    /\ UNCHANGED users
    /\ UNCHANGED <<aggVars, listVars, compareVars, extVars>>

\* login resumes after bcrypt.compare: 200 on a match, else 401
LoginCompare(r) ==
    /\ requests[r].kind = "login" /\ requests[r].pc = "compare"
    /\ IF Compare(requests[r].password, requests[r].hashed)
       THEN Respond(r, 200, TRUE, LoginSuccessful(users[FindOne(requests[r].email)].email))
       ELSE Respond(r, 401, TRUE, InvalidLogin)
    /\ UNCHANGED users
    /\ UNCHANGED <<aggVars, listVars, compareVars, extVars>>

NextAuth ==
    \/ PostSignup
    \/ PostLogin
    \/ \E r \in 1..Len(requests) : SignupFindOne(r)
    \/ \E r \in 1..Len(requests) : SignupHash(r)
    \/ \E r \in 1..Len(requests) : SignupSave(r)
    \/ \E r \in 1..Len(requests) : LoginFindOne(r)
    \/ \E r \in 1..Len(requests) : LoginCompare(r)

SpecAuth == Init /\ [][NextAuth]_vars

(***************************************************************************)
(* Claims about the auth backend, checked under SpecAuth.                  *)
(***************************************************************************)
UniqueEmails ==
    \A i, j \in 1..Len(users) : users[i].email = users[j].email => i = j

\* C5: under every interleaving of signups the collection holds at most one
\* account per email, and a step never changes a stored account: it leaves the
\* collection alone or appends one account whose email was not stored before.
C5_OneAccountPerEmail ==
    [][/\ UniqueEmails'
       /\ \/ users' = users
          \/ /\ Len(users') = Len(users) + 1
             /\ SubSeq(users', 1, Len(users)) = users
             /\ ~DuplicateKey(users'[Len(users')].email)]_vars

\* two signups for one email were both past the findOne check; one was refused
C5_Witness ==
    \E r1, r2 \in 1..Len(requests) :
        /\ requests[r1].email = requests[r2].email
        /\ requests[r1].status = 201
        /\ requests[r2].status = 500
        /\ Len(users) = 1

C7_DuplicateSignupGets400 ==
    \A r \in 1..Len(requests) :
        (requests[r].kind = "signup" /\ requests[r].pc = "done" /\ requests[r].held)
            => requests[r].status = 400

(***************************************************************************)
(* HospitalService: the paginated list and the compare selection.  The     *)
(* repository holds five versions of the class: three in                   *)
(* js/hospital-service.js ("v1", "v2", "v3") and two more ("p5", "p6");    *)
(* and two main scripts, of which one installs a document-level handler    *)
(* for clicks on compare buttons.                                          *)
(***************************************************************************)
MaxHospitals == 11
MaxListLen == 27

ItemsPerPage == 5
MaxVisiblePages == 5
LimitThree == 3
LimitTen == 10

Variants == { "v1", "v2", "v3", "p5", "p6" }
MainScripts == { "main.js", "part_009" }

Min(a, b) == IF a < b THEN a ELSE b
Max(a, b) == IF a > b THEN a ELSE b

\* the hospitals a data load leaves in dataService.hospitalsData: hospital i is
\* named "H" and the two digits of i, so no two share a key or an Id
Digits == <<"0", "1", "2", "3", "4", "5", "6", "7", "8", "9">>
HospitalName(i) == <<"H", Digits[(i \div 10) + 1], Digits[(i % 10) + 1]>>
LoadedHospital(i) ==
    [key |-> HospitalKey(HospitalName(i), <<"c">>), NAME |-> HospitalName(i),
     CITY |-> <<"c">>, Id |-> HospitalName(i), treatments |-> <<>>,
     totalCases |-> 1, totalCost |-> 100, averageCost |-> Quot(100, 1)]
LoadedHospitals(n) == [i \in 1..n |-> LoadedHospital(i)]

\* Array.prototype.slice(start, end), 0 <= start
Slice(s, start, end) ==
    IF start >= Min(end, Len(s)) THEN <<>> ELSE SubSeq(s, start + 1, Min(end, Len(s)))

\* Math.ceil(length / this.itemsPerPage)
TotalPages(n) == (n + ItemsPerPage - 1) \div ItemsPerPage

\* the page numbers renderPagination lists, as <<startPage, endPage>>
PageWindow(v, totalPages, page) ==
    IF v = "v1"
    THEN LET halfVisible == MaxVisiblePages \div 2
             start0 == Max(1, page - halfVisible)
             endPage == Min(totalPages, start0 + MaxVisiblePages - 1)
             startPage == IF endPage - start0 + 1 < MaxVisiblePages
                          THEN Max(1, endPage - MaxVisiblePages + 1)
                          ELSE start0
         IN <<startPage, endPage>>
    ELSE IF v \in {"v2", "v3"} THEN <<1, totalPages>>
    ELSE IF totalPages <= MaxVisiblePages THEN <<1, totalPages>>
    ELSE LET halfMax == MaxVisiblePages \div 2
         IN IF page <= halfMax THEN <<1, MaxVisiblePages>>
            ELSE IF page + halfMax >= totalPages
                 THEN <<totalPages - MaxVisiblePages + 1, totalPages>>
                 ELSE <<page - halfMax, page + halfMax>>

\* renderPagination: the data-page values of the items that get a click listener
RenderPagination(v, n, page) ==
    LET totalPages == TotalPages(n)
        w == PageWindow(v, totalPages, page)
    IN IF totalPages <= 1 THEN {}
       ELSE (IF page > 1 THEN {page - 1} ELSE {})
            \cup { i \in w[1]..w[2] : v = "v1" \/ i # page }
            \cup (IF page < totalPages THEN {page + 1} ELSE {})

\* renderHospitals: the cards of the current page
PageOfOneMore(list, page) ==
    Slice(list, (page - 1) * ItemsPerPage, (page - 1) * ItemsPerPage + ItemsPerPage + 1)
PageOf(list, page) ==
    Slice(list, (page - 1) * ItemsPerPage, (page - 1) * ItemsPerPage + ItemsPerPage)

\* renderHospitals, with the renderPagination it ends in (the list and
\* pagination elements exist in the page, so no early return is taken)
RenderHospitals(list, page) ==
    /\ hospitalsToShow' = PageOf(list, page)
    /\ pageControls' = IF PageOf(list, page) = <<>> THEN {}
                       ELSE RenderPagination(variant, Len(list), page)

\* initialize(): the data load leaves n hospitals; all of them are displayed
Initialize(n) ==
    /\ aggPc = "loop"
    /\ hospitalsData' = LoadedHospitals(n)
    /\ aggPc' = "done"
    /\ filteredHospitals' = LoadedHospitals(n)
    /\ RenderHospitals(LoadedHospitals(n), currentPage)
    /\ UNCHANGED <<rawHospitalEntries, hospitalMap, foldedInto>>
    /\ UNCHANGED <<variant, mainScript, currentPage>>
    /\ UNCHANGED <<authVars, compareVars, extVars>>

\* the click listener of a pagination item
PaginationClick(p) ==
    /\ p \in pageControls
    /\ currentPage' = p
    /\ RenderHospitals(filteredHospitals, p)
    /\ UNCHANGED <<variant, mainScript, filteredHospitals>>
    /\ UNCHANGED <<aggVars, authVars, compareVars, extVars>>

InitPage ==
    /\ InitAgg /\ InitAuth /\ InitCompare /\ InitExt
    /\ variant \in Variants
    /\ mainScript \in MainScripts
    /\ filteredHospitals = <<>>
    /\ currentPage = 1
    /\ hospitalsToShow = <<>>
    /\ pageControls = {}

LoadList == \E n \in 0..MaxListLen : Initialize(n)

TurnPage == \E p \in 1..(MaxListLen + 1) : PaginationClick(p)

NextPage == LoadList \/ TurnPage

SpecPage == InitPage /\ [][NextPage]_vars

(***************************************************************************)
(* Claims about pagination, checked under SpecPage.                        *)
(***************************************************************************)
\* C8: with n hospitals in the list, the displayed page p shows the items at
\* indexes (p-1)*5 .. min(p*5, n)-1 in order; a page shows at most 5 items, a
\* page before the last exactly 5, the last page the remaining
\* n - 5*(ceil(n/5)-1); and over the pages 1..ceil(n/5) every item is shown on
\* exactly one page, once.
C8_PagesPartitionTheList ==
    LET n == Len(filteredHospitals)
        last == (n + 4) \div 5
        p == currentPage
        pages == [q \in 1..last |-> PageOf(filteredHospitals, q)]
        shownOn == [q \in 1..last |-> { pages[q][k] : k \in 1..Len(pages[q]) }]
    IN (n >= 1 /\ p \in 1..last) =>
        /\ Len(hospitalsToShow) = Min(p * 5, n) - (p - 1) * 5
        /\ \A k \in 1..Len(hospitalsToShow) :
              hospitalsToShow[k] = filteredHospitals[(p - 1) * 5 + k]
        /\ Len(hospitalsToShow) <= 5
        /\ (p < last => Len(hospitalsToShow) = 5)
        /\ (p = last => Len(hospitalsToShow) = n - 5 * (last - 1))
        /\ \A i \in 1..n :
              Cardinality({ q \in 1..last : filteredHospitals[i] \in shownOn[q] }) = 1
        /\ \A q \in 1..last : Len(pages[q]) = Cardinality(shownOn[q])

\* the last page of a list of 27 is displayed and holds the 2 remaining items
C8_Witness ==
    /\ Len(filteredHospitals) = 27
    /\ currentPage = 6
    /\ Len(hospitalsToShow) = 2

(***************************************************************************)
(* Strings and costs as DataService reads them: case-insensitive           *)
(* containment, the cost of a treatment at a hospital, and the comparison  *)
(* of costs.                                                               *)
(***************************************************************************)
UpperCase == <<"A", "B", "C", "D", "E", "F", "G", "H", "I", "J", "K", "L", "M",
               "N", "O", "P", "Q", "R", "S", "T", "U", "V", "W", "X", "Y", "Z">>
LowerCase == <<"a", "b", "c", "d", "e", "f", "g", "h", "i", "j", "k", "l", "m",
               "n", "o", "p", "q", "r", "s", "t", "u", "v", "w", "x", "y", "z">>

\* String.prototype.toLowerCase
ToLowerCase(str) ==
    [i \in 1..Len(str) |->
        IF \E k \in 1..26 : UpperCase[k] = str[i]
        THEN LowerCase[CHOOSE k \in 1..26 : UpperCase[k] = str[i]]
        ELSE str[i]]

\* String.prototype.includes
Includes(str, part) ==
    \E i \in 0..(Len(str) - Len(part)) : SubSeq(str, i + 1, i + Len(part)) = part

\* this.hospitalStats: the constructor sets it to {} and nothing writes to it
hospitalStats == <<>>

\* the cost getTreatmentCost reads from the statistics of a hospital: of the
\* treatment with that key, else of the first treatment whose key contains the
\* text, else the average over all treatments
CostIn(stats, treatment) ==
    LET Matching(k) == Includes(ToLowerCase(stats.treatments[k].key), ToLowerCase(treatment))
        matches == { k \in 1..Len(stats.treatments) : Matching(k) }
    IN IF treatment # Empty /\ IndexOf(stats.treatments, treatment) # 0
       THEN stats.treatments[IndexOf(stats.treatments, treatment)].averageCost
       ELSE IF treatment # Empty /\ matches # {}
       THEN stats.treatments[CHOOSE k \in matches : \A j \in matches : k <= j].averageCost
       ELSE stats.averageCost

\* getTreatmentCost(hospital, treatment)
GetTreatmentCost(hospital, treatment) ==
    LET hospitalKey == HospitalKey(hospital.NAME, hospital.CITY)
    IN IF hospital.NAME = Empty \/ hospital.CITY = Empty THEN Zero
       ELSE IF IndexOf(hospitalStats, hospitalKey) = 0 THEN Zero
       ELSE CostIn(hospitalStats[IndexOf(hospitalStats, hospitalKey)], treatment)

\* a <= b for two fractions
FracLeq(a, b) == a.n * b.d <= b.n * a.d

\* getCostCategory(cost, allCosts) on numbers: range * 0.33 and range * 0.66
\* are 33 and 66 hundredths of the range
GetCostCategory(cost, allCosts) ==
    LET costs == { allCosts[k] : k \in 1..Len(allCosts) }
        lowestCost == CHOOSE c \in costs : \A x \in costs : FracLeq(c, x)
        highestCost == CHOOSE c \in costs : \A x \in costs : FracLeq(x, c)
        \* (x - lowestCost) as a multiple of 1 / (x.d * lowestCost.d)
        Above(x) == x.n * lowestCost.d - lowestCost.n * x.d
    IN IF Len(allCosts) = 0 THEN "medium"
       ELSE IF lowestCost = highestCost THEN "medium"
       ELSE IF 100 * Above(cost) * highestCost.d <= 33 * Above(highestCost) * cost.d
       THEN "low"
       ELSE IF 100 * Above(cost) * highestCost.d >= 66 * Above(highestCost) * cost.d
       THEN "high"
       ELSE "medium"

\* comparisonData.sort((a, b) => a.cost - b.cost), a stable sort
RECURSIVE SortByCost(_, _)
SortByCost(sorted, rest) ==
    IF rest = <<>> THEN sorted
    ELSE LET x == Head(rest)
             stays == { i \in 1..Len(sorted) : FracLeq(sorted[i].cost, x.cost) }
             k == IF stays = {} THEN 0 ELSE CHOOSE i \in stays : \A j \in stays : j <= i
         IN SortByCost(SubSeq(sorted, 1, k) \o <<x>> \o SubSeq(sorted, k + 1, Len(sorted)),
                       Tail(rest))

\* compareHospitalCosts(hospitals, treatment): { ...hospital, cost, costCategory }
CompareHospitalCosts(hospitals, treatment) ==
    LET allCosts == [k \in 1..Len(hospitals) |-> GetTreatmentCost(hospitals[k], treatment)]
        comparisonData ==
            [k \in 1..Len(hospitals) |->
                [hospital |-> hospitals[k],
                 cost |-> GetTreatmentCost(hospitals[k], treatment),
                 costCategory |->
                     GetCostCategory(GetTreatmentCost(hospitals[k], treatment), allCosts)]]
    IN IF Len(hospitals) = 0 THEN <<>> ELSE SortByCost(<<>>, comparisonData)

(***************************************************************************)
(* ChartService: the comparison chart.                                     *)
(***************************************************************************)
MaxLabel == 20
TruncatedLabel == 17

sHOSPITAL == <<" ", "H", "O", "S", "P", "I", "T", "A", "L">>
sMEDICAL == <<" ", "M", "E", "D", "I", "C", "A", "L">>
sCENTER == <<" ", "C", "E", "N", "T", "E", "R">>
sHEALTH == <<" ", "H", "E", "A", "L", "T", "H">>
Breakpoints == <<sHOSPITAL, sMEDICAL, sCENTER, sHEALTH>>

\* String.prototype.indexOf, -1 if the part does not occur
StringIndexOf(str, part) ==
    LET at == { i \in 0..(Len(str) - Len(part)) : SubSeq(str, i + 1, i + Len(part)) = part }
    IN IF at = {} THEN -1 ELSE CHOOSE i \in at : \A j \in at : i <= j

\* shortenHospitalName(name)
ShortenHospitalName(name) ==
    LET usable == { b \in 1..Len(Breakpoints) :
                      /\ StringIndexOf(name, Breakpoints[b]) > 0
                      /\ StringIndexOf(name, Breakpoints[b]) < MaxLabel }
        first == CHOOSE b \in usable : \A c \in usable : b <= c
    IN IF Len(name) <= MaxLabel THEN name
       ELSE IF usable # {} THEN SubSeq(name, 1, StringIndexOf(name, Breakpoints[first]))
       ELSE SubSeq(name, 1, TruncatedLabel) \o <<".", ".", ".">>

\* an array of aggregates as chart input: an aggregate has no cost property
WithoutCost(hospitals) ==
    [k \in 1..Len(hospitals) |-> [hospital |-> hospitals[k], cost |-> Zero]]

\* chartService.updateComparisonChart(hospitals, treatment): the chart after it
UpdateComparisonChart(ch, items, treatment) ==
    LET costed == [k \in 1..Len(items) |->
                      [hospital |-> items[k].hospital,
                       cost |-> IF treatment # Empty THEN items[k].cost
                                ELSE items[k].hospital.averageCost]]
        sortedHospitals == SortByCost(<<>>, costed)
    IN IF Len(items) = 0
       THEN IF ch.created
            THEN [ch EXCEPT !.labels = <<>>, !.data = <<>>, !.hospitals = <<>>]
            ELSE ch
       ELSE [created |-> TRUE,
             labels |-> [k \in 1..Len(items) |->
                            ShortenHospitalName(sortedHospitals[k].hospital.NAME)],
             data |-> [k \in 1..Len(items) |-> sortedHospitals[k].cost],
             hospitals |-> [k \in 1..Len(items) |-> sortedHospitals[k].hospital]]

\* this.currentTreatment, which handleSearch sets
CurrentTreatment == IF lastSearch.called THEN lastSearch.treatment ELSE Empty

\* HospitalService.updateComparisonChart(): with a current treatment the
\* versions on the aggregates hand the chart the comparison data
ServiceUpdateChart(v, ch, selected) ==
    IF v \in {"v3", "p5", "p6"} /\ CurrentTreatment # Empty /\ Len(selected) > 0
    THEN UpdateComparisonChart(ch, CompareHospitalCosts(selected, CurrentTreatment),
                               CurrentTreatment)
    ELSE UpdateComparisonChart(ch, WithoutCost(selected), Empty)

(***************************************************************************)
(* The compare selection.                                                  *)
(***************************************************************************)
\* the limit toggleCompare enforces
CompareLimit(v) == IF v \in {"p5", "p6"} THEN LimitTen ELSE LimitThree

\* the key toggleCompare and createHospitalCard compare hospitals by
CompareKey(v, h) == IF v \in {"v1", "v2"} THEN h.Id ELSE HospitalKey(h.NAME, h.CITY)

\* selectedHospitals.findIndex(...): the first index with the key, 0 for -1
FindIndex(v, selected, h) ==
    IF \E i \in 1..Len(selected) : CompareKey(v, selected[i]) = CompareKey(v, h)
    THEN CHOOSE i \in 1..Len(selected) :
            /\ CompareKey(v, selected[i]) = CompareKey(v, h)
            /\ \A j \in 1..(i - 1) : CompareKey(v, selected[j]) # CompareKey(v, h)
    ELSE 0

\* selected.splice(index, 1)
Splice1(selected, index) ==
    SubSeq(selected, 1, index - 1) \o SubSeq(selected, index + 1, Len(selected))

\* toggleCompare(hospital): the selection it leaves, and whether it alerted
ToggleNoLimit(v, selected, h) ==
    IF FindIndex(v, selected, h) = 0
    THEN [selected |-> Append(selected, h), alert |-> FALSE]
    ELSE [selected |-> Splice1(selected, FindIndex(v, selected, h)), alert |-> FALSE]
ToggleAlwaysPush(v, selected, h) ==
    IF Len(selected) >= CompareLimit(v)
    THEN [selected |-> selected, alert |-> TRUE]
    ELSE [selected |-> Append(selected, h), alert |-> FALSE]
ToggleCompare(v, selected, h) ==
    IF FindIndex(v, selected, h) = 0
    THEN IF Len(selected) >= CompareLimit(v)
         THEN [selected |-> selected, alert |-> TRUE]
         ELSE [selected |-> Append(selected, h), alert |-> FALSE]
    ELSE [selected |-> Splice1(selected, FindIndex(v, selected, h)), alert |-> FALSE]

\* only these versions give the compare button the class compare-btn
HasCompareBtnClass(v) == v \in {"p5", "p6"}

\* hospitalCard.dataset.hospitalId: no version writes data-hospital-id on a card
DatasetHospitalId == "undefined"

\* h.id: no aggregate has a property id
LowerId(h) == "undefined"

\* the document click handler of the main script, run on a compare button
DocumentCompareHandler(selected) ==
    LET hospitalId == DatasetHospitalId
        found == { i \in 1..Len(hospitalsData) : LowerId(hospitalsData[i]) = hospitalId }
        isSelected == \E i \in 1..Len(selected) : LowerId(selected[i]) = hospitalId
    IN IF found = {} \/ isSelected THEN selected
       ELSE Append(selected, hospitalsData[CHOOSE i \in found : \A j \in found : i <= j])

\* position of a hospital in hospitalsData
PositionOf(h) == CHOOSE i \in 1..Len(hospitalsData) : hospitalsData[i] = h

\* the versions with the limit of ten are explored with the user adding
\* hospitals in list order (removing in any order)
InListOrder(selected, h) ==
    \A i \in 1..Len(selected) : PositionOf(selected[i]) < PositionOf(h)

\* one click on the compare button of a displayed card: the button's listener
\* (toggleCompare, which re-renders unless it alerted), then the document handler
CompareClick(k) ==
    /\ k \in 1..Len(hospitalsToShow)
    /\ LET h == hospitalsToShow[k]
           toggled == ToggleCompare(variant, selectedHospitals, h)
       IN /\ \/ CompareLimit(variant) = LimitThree
             \/ FindIndex(variant, selectedHospitals, h) # 0
             \/ InListOrder(selectedHospitals, h)
          /\ selectedHospitals' =
                IF mainScript = "part_009" /\ HasCompareBtnClass(variant)
                THEN DocumentCompareHandler(toggled.selected)
                ELSE toggled.selected
          /\ lastClick' = [alert |-> toggled.alert,
                           pushed |-> selectedHospitals' # toggled.selected]
          /\ LET updated == IF toggled.alert THEN chart
                            ELSE ServiceUpdateChart(variant, chart, toggled.selected)
             IN chart' = IF selectedHospitals' # toggled.selected
                         THEN UpdateComparisonChart(updated, WithoutCost(selectedHospitals'),
                                                    Empty)
                         ELSE updated
    /\ RenderHospitals(filteredHospitals, currentPage)
    /\ UNCHANGED <<variant, mainScript, filteredHospitals, currentPage>>
    /\ UNCHANGED <<aggVars, authVars, extVars>>

\* the sizes of the data set: one hospital, one more than the limit of three,
\* and one more than the limit of ten
HospitalCounts == { 1, LimitThree + 1, MaxHospitals }

LoadHospitals == \E n \in HospitalCounts : Initialize(n)

ClickCompare == \E k \in 1..ItemsPerPage : CompareClick(k)

NextCompare == LoadHospitals \/ TurnPage \/ ClickCompare

SpecCompare == InitPage /\ [][NextCompare]_vars

(***************************************************************************)
(* Claims about the compare selection, checked under SpecCompare.          *)
(***************************************************************************)
\* C9: selectedHospitals never holds two entries with the same hospital key:
\* (NAME, CITY), and in the Id-based versions the Id.
C9_NoDuplicateSelection ==
    \A i, j \in 1..Len(selectedHospitals) :
        (\/ /\ selectedHospitals[i].NAME = selectedHospitals[j].NAME
            /\ selectedHospitals[i].CITY = selectedHospitals[j].CITY
         \/ /\ variant \in {"v1", "v2"}
            /\ selectedHospitals[i].Id = selectedHospitals[j].Id)
        => i = j

\* on page 2 the button's listener removed the only selected hospital and the
\* document handler then added the first hospital of the data set
C9_Witness ==
    /\ variant = "p6"
    /\ lastClick.pushed
    /\ currentPage = 2
    /\ selectedHospitals = <<hospitalsData[1]>>

\* C10: the selection never holds more hospitals than the version's limit, and
\* a click on a hospital that is not selected while the selection is at the
\* limit leaves the selection unchanged.
C10_SelectionBounded ==
    [][/\ Len(selectedHospitals') <= CompareLimit(variant)
       /\ (/\ Len(selectedHospitals) = CompareLimit(variant)
           /\ selectedHospitals' # selectedHospitals)
             => \A k \in 1..Len(hospitalsToShow) :
                   FindIndex(variant, selectedHospitals, hospitalsToShow[k]) = 0
                      => ~CompareClick(k)]_vars

\* ten hospitals are selected in "p6" and a click on the eleventh was refused
C10_Witness ==
    /\ variant = "p6"
    /\ mainScript = "part_009"
    /\ Len(selectedHospitals) = 10
    /\ lastClick.alert

(***************************************************************************)
(* The comparison chart over the compare selection.  Besides the two main  *)
(* scripts, the file js/data-service.js ends in a third one, whose         *)
(* initializeApp calls chartService.initializeChart() after initialize().  *)
(***************************************************************************)
AppScripts == { "main.js", "part_009", "data-service.js" }

DefaultChartSize == 3

\* chartService.initializeChart(): the chart of the first three hospitals
InitializeChart(ch, hospitals) ==
    IF Len(hospitals) > 0
    THEN UpdateComparisonChart(ch, WithoutCost(Slice(hospitals, 0, DefaultChartSize)), Empty)
    ELSE ch

\* initializeApp(): initialize() on a data load that leaves n hospitals, and in
\* the script of js/data-service.js the chart's initialization
InitializeApp(n) ==
    /\ aggPc = "loop"
    /\ hospitalsData' = LoadedHospitals(n)
    /\ aggPc' = "done"
    /\ filteredHospitals' = LoadedHospitals(n)
    /\ RenderHospitals(LoadedHospitals(n), currentPage)
    /\ chart' = IF mainScript = "data-service.js"
                THEN InitializeChart(chart, LoadedHospitals(n))
                ELSE chart
    /\ UNCHANGED <<rawHospitalEntries, hospitalMap, foldedInto>>
    /\ UNCHANGED <<variant, mainScript, currentPage, selectedHospitals, lastClick>>
    /\ UNCHANGED <<authVars, extVars>>

InitChart ==
    /\ InitAgg /\ InitAuth /\ InitCompare /\ InitExt
    /\ variant \in Variants
    /\ mainScript \in AppScripts
    /\ filteredHospitals = <<>>
    /\ currentPage = 1
    /\ hospitalsToShow = <<>>
    /\ pageControls = {}

\* the sizes of the data set: one hospital, and one more than the default chart
ChartCounts == { 1, DefaultChartSize + 1 }

StartApp == \E n \in ChartCounts : InitializeApp(n)

NextChart == StartApp \/ ClickCompare

SpecChart == InitChart /\ [][NextChart]_vars

\* C23: whenever the chart has been created, its labels and data are one per
\* selected hospital: as many entries as selectedHospitals has hospitals, and
\* made from the same hospitals.
C23_ChartShowsSelection ==
    chart.created =>
        /\ Len(chart.labels) = Len(selectedHospitals)
        /\ Len(chart.data) = Len(selectedHospitals)
        /\ { chart.hospitals[k] : k \in 1..Len(chart.hospitals) }
              = { selectedHospitals[k] : k \in 1..Len(selectedHospitals) }

\* C27: once the handlers of a click on a card's compare button have run, the
\* clicked hospital is no longer selected if it was selected before, and the
\* selection holds no hospital that was not selected before other than the
\* clicked one (so none whose button was never clicked).
C27_ClickTogglesClicked ==
    [][\A k \in 1..Len(hospitalsToShow) :
          CompareClick(k) =>
              /\ FindIndex(variant, selectedHospitals, hospitalsToShow[k]) # 0
                    => FindIndex(variant, selectedHospitals', hospitalsToShow[k]) = 0
              /\ \A i \in 1..Len(selectedHospitals') :
                    \/ selectedHospitals'[i] = hospitalsToShow[k]
                    \/ \E j \in 1..Len(selectedHospitals) :
                          selectedHospitals[j] = selectedHospitals'[i]]_vars

(***************************************************************************)
(* DataService.loadHospitalsData: the text of data/merged_data.csv is      *)
(* parsed into rawHospitalEntries, processHospitalData folds the entries   *)
(* into a fresh map, and one of the two DataService classes then adds mock *)
(* ratings.  The page calls it more than once on the same file.            *)
(***************************************************************************)
MaxLoads == 2

DataScripts == { "data-service.js", "part_007" }

\* the columns of the file that the aggregation reads, in the header's order
Headers == <<"NAME", "CITY", "DESCRIPTION", "BASE_ENCOUNTER_COST">>

s1000 == <<"1", "0", "0", "0">>
s500 == <<"5", "0", "0">>
sAbc == <<"a", "b", "c">>
sBlank == <<" ">>

RECURSIVE JoinCells(_)
JoinCells(cells) ==
    IF Len(cells) = 0 THEN <<>>
    ELSE IF Len(cells) = 1 THEN cells[1]
    ELSE cells[1] \o <<",">> \o JoinCells(Tail(cells))

\* the data lines a file is made of: a complete row, a row without NAME, a
\* row without CITY, a row with a blank DESCRIPTION and an unparsable cost, a
\* row that ends after CITY, and a row of a second hospital
CsvLines ==
    { JoinCells(<<sA, sX, sKnee, s1000>>),
      JoinCells(<<Empty, sX, sKnee, s1000>>),
      JoinCells(<<sA, Empty, sKnee, s1000>>),
      JoinCells(<<sA, sX, sBlank, sAbc>>),
      JoinCells(<<sA, sX>>),
      JoinCells(<<sB, sY, sHip, s500>>) }

CsvTexts == UNION { [1..k -> CsvLines] : k \in 0..MaxRows }

\* values.push(currentValue), which part_007 trims
PushValue(script, values, currentValue) ==
    Append(values, IF script = "part_007" THEN Trim(currentValue) ELSE currentValue)

\* the for loop of parseCSVLine over the rest of the line
RECURSIVE ScanLine(_, _, _, _, _)
ScanLine(script, line, values, currentValue, inQuotes) ==
    IF line = <<>> THEN PushValue(script, values, currentValue)
    ELSE LET char == Head(line)
         IN IF char = "\""
            THEN ScanLine(script, Tail(line), values, currentValue, ~inQuotes)
            ELSE IF char = "," /\ ~inQuotes
            THEN ScanLine(script, Tail(line), PushValue(script, values, currentValue),
                          <<>>, inQuotes)
            ELSE ScanLine(script, Tail(line), values, Append(currentValue, char), inQuotes)

ParseCSVLine(script, line) ==
    IF line = <<>> THEN <<>> ELSE ScanLine(script, line, <<>>, <<>>, FALSE)

IsDigit(c) == \E d \in 1..10 : Digits[d] = c
DigitValue(c) == (CHOOSE d \in 1..10 : Digits[d] = c) - 1

\* the value of the longest prefix of digits, after acc
RECURSIVE ReadDigits(_, _)
ReadDigits(s, acc) ==
    IF s # <<>> /\ IsDigit(Head(s)) THEN ReadDigits(Tail(s), 10 * acc + DigitValue(Head(s)))
    ELSE acc

\* parseFloat of a string of the model: leading blanks are skipped, the
\* longest prefix of digits is the number, and without one the result is NaN
ParseFloat(s) ==
    LET t == TrimLeft(s)
    IN IF t # <<>> /\ IsDigit(Head(t)) THEN ReadDigits(t, 0) ELSE NaN

\* values[index]; undefined and '' are both falsy and are not told apart
ValueAt(values, index) == IF index <= Len(values) THEN values[index] ELSE Empty

\* the entry parseCSV builds from one line
ParseEntry(script, line) ==
    LET values == ParseCSVLine(script, line)
    IN [NAME |-> ValueAt(values, 1),
        CITY |-> ValueAt(values, 2),
        DESCRIPTION |-> ValueAt(values, 3),
        BASE_ENCOUNTER_COST |->
            IF ValueAt(values, 4) # Empty THEN ParseFloat(ValueAt(values, 4)) ELSE 0]

\* line && line.trim() !== ''
NotBlankLine(line) == line # <<>> /\ Trim(line) # <<>>

\* parseCSV on the data lines of the file
ParseCSV(script, lines) ==
    LET kept == SelectSeq(lines, NotBlankLine)
    IN [i \in 1..Len(kept) |-> ParseEntry(script, kept[i])]

\* the outcomes of generateMockRatings for one hospital: rating is
\* (3 + Math.random() * 2).toFixed(1), held in tenths, and reviews is
\* Math.floor(50 + Math.random() * 300)
MockRatings == { [rating |-> 32, reviews |-> 50], [rating |-> 47, reviews |-> 349] }

\* loadHospitalsData up to the forEach of processHospitalData: parseCSV, and
\* the new Map
StartLoadKeepingMap ==
    /\ aggPc = "idle"
    /\ loads < MaxLoads
    /\ rawHospitalEntries' = ParseCSV(dataScript, csvText)
    /\ foldedInto' = <<>>
    /\ aggPc' = "loop"
    /\ UNCHANGED <<hospitalMap, hospitalsData>>
    /\ UNCHANGED <<authVars, listVars, compareVars, extVars>>
StartLoad ==
    /\ aggPc = "idle"
    /\ loads < MaxLoads
    /\ rawHospitalEntries' = ParseCSV(dataScript, csvText)
    /\ hospitalMap' = <<>>
    /\ foldedInto' = <<>>
    /\ aggPc' = "loop"
    /\ UNCHANGED hospitalsData
    /\ UNCHANGED <<authVars, listVars, compareVars, extVars>>

\* one iteration of rawHospitalEntries.forEach on the parsed file
ProcessNext ==
    /\ aggPc = "loop"
    /\ Len(foldedInto) < Len(rawHospitalEntries)
    /\ LET entry == rawHospitalEntries[Len(foldedInto) + 1]
       IN /\ hospitalMap' = ProcessEntry(hospitalMap, entry)
          /\ foldedInto' = Append(foldedInto,
                 IF Skipped(entry) THEN 0
                 ELSE IndexOf(hospitalMap', HospitalKey(entry.NAME, entry.CITY)))
    /\ UNCHANGED <<rawHospitalEntries, hospitalsData, aggPc>>
    /\ UNCHANGED <<authVars, listVars, compareVars, extVars>>

\* the rest of loadHospitalsData after processHospitalData: dataLoaded = true,
\* and in js/data-service.js generateMockRatings on every hospital
FinishLoad ==
    /\ aggPc = "done"
    /\ aggPc' = "idle"
    /\ loads' = loads + 1
    /\ IF dataScript = "data-service.js"
       THEN ratings' \in [1..Len(hospitalsData) -> MockRatings]
       ELSE UNCHANGED ratings
    /\ UNCHANGED <<rawHospitalEntries, hospitalMap, foldedInto, hospitalsData>>
    /\ UNCHANGED <<dataScript, csvText, distance>>
    /\ UNCHANGED <<authVars, listVars, compareVars, queryVars, filterVars, sessionVars>>

InitLoad ==
    /\ InitAuth /\ InitList /\ InitCompare
    /\ rawHospitalEntries = <<>>
    /\ hospitalMap = <<>>
    /\ foldedInto = <<>>
    /\ hospitalsData = <<>>
    /\ aggPc = "idle"
    /\ dataScript \in DataScripts
    /\ csvText \in CsvTexts
    /\ loads = 0
    /\ ratings = <<>>
    /\ distance = <<>>
    /\ searchCall = NoCall
    /\ comparisonCall = NoCall
    /\ categoryCall = NoCall
    /\ InitSession
    /\ filterValues = DefaultFilters
    /\ userLocation = "null"

NextLoad == StartLoad \/ ProcessNext \/ FinishProcess \/ FinishLoad

SpecLoad == InitLoad /\ [][NextLoad]_vars

(***************************************************************************)
(* Claims about loading, checked under SpecLoad.                           *)
(***************************************************************************)
\* processHospitalData on a whole array of entries, from a map
RECURSIVE ProcessAll(_, _)
ProcessAll(map, entries) ==
    IF entries = <<>> THEN map
    ELSE ProcessAll(ProcessEntry(map, Head(entries)), Tail(entries))

HasNameAndCity(entry) == entry.NAME # Empty /\ entry.CITY # Empty

\* the entry the forEach visits in a step that visits one
VisitedEntry == rawHospitalEntries[Len(foldedInto) + 1]

VisitsEntry == aggPc = "loop" /\ Len(foldedInto') = Len(foldedInto) + 1

\* C16: the iteration on a row whose NAME or CITY is empty leaves the map as it
\* was (no aggregate is created, none is changed) and the loop goes on; and
\* after every iteration the map is what the rows visited so far give when the
\* rows without NAME or CITY are taken out of the input.
C16_SkippedRowsLeaveNoTrace ==
    [][VisitsEntry =>
        /\ ~HasNameAndCity(VisitedEntry) =>
              (hospitalMap' = hospitalMap /\ aggPc' = "loop")
        /\ hospitalMap' =
              ProcessAll(<<>>, SelectSeq(SubSeq(rawHospitalEntries, 1, Len(foldedInto')),
                                         HasNameAndCity))]_vars

\* a row without NAME or CITY was visited between two rows that were aggregated
C16_Witness ==
    /\ aggPc = "done"
    /\ Len(foldedInto) = 3
    /\ foldedInto[1] # 0 /\ foldedInto[2] = 0 /\ foldedInto[3] # 0
    /\ hospitalsData[1].totalCases = 2

\* C17: no aggregate has a treatment entry under the empty key: a row with a
\* missing, empty or blank DESCRIPTION is counted under 'Unknown Treatment'.
C17_BlankDescriptionIsUnknown ==
    \A h \in Aggregates :
        \A t \in 1..Len(h.treatments) : h.treatments[t].key # Empty

\* the count of a treatment key in an aggregate, 0 without an entry
CountOf(h, key) ==
    IF IndexOf(h.treatments, key) = 0 THEN 0
    ELSE h.treatments[IndexOf(h.treatments, key)].count

\* the cost cell of a data line, as the file holds it
CostCell(line) == ValueAt(ParseCSVLine("data-service.js", line), 4)

\* the file has no blank line, so the k-th entry comes from the k-th line
VisitedLine == csvText[Len(foldedInto) + 1]

C20_ReloadRebuilds ==
    [][(aggPc = "loop" /\ aggPc' = "done" /\ loads >= 1) =>
          hospitalsData' = hospitalsData]_vars

\* the file was loaded twice and holds two hospitals, one with two cases
C20_Witness ==
    /\ loads = 2
    /\ aggPc = "idle"
    /\ Len(hospitalsData) = 2
    /\ hospitalsData[1].totalCases = 2

(***************************************************************************)
(* HospitalService filters, in the versions that work on the aggregates    *)
(* ("v3", "p5", "p6"): a change of one of the selects runs applyFilters.   *)
(***************************************************************************)
FilterVariants == { "v3", "p5", "p6" }

\* JS values of hospital.distance that are not a number of miles
Null == -2
Undefined == -3

\* Infinity, above every number of the model
Infinity == 1000000

s2000 == <<"2", "0", "0", "0">>

\* the data file of the filter claims: hospital A in X with one case of 500,
\* hospital B in X with two cases of 2000, hospital B in Y with one case of 500
SampleText ==
    << JoinCells(<<sA, sX, sHip, s500>>),
       JoinCells(<<sB, sX, sKnee, s2000>>),
       JoinCells(<<sB, sX, sKnee, s2000>>),
       JoinCells(<<sB, sY, sHip, s500>>) >>

\* the values of the selects: 'any' and two of the budget ranges, 'all' and the
\* cities populateCityFilter lists, 'any' and a mileage, 'any' and a rating,
\* and two of the sort orders
BudgetOptions == { "any", "0-1000", "1000-5000" }
CityOptions == { sAll, sX, sY }
DistanceOptions == { "any", "10" }
RatingOptions == { "any", "4" }
SortOptions == { "recommended", "price-low" }
Miles == { 5, 30 }

FilterOptions(element) ==
    CASE element = "budget" -> BudgetOptions
      [] element = "city" -> CityOptions
      [] element = "distance" -> DistanceOptions
      [] element = "rating" -> RatingOptions
      [] element = "sortBy" -> SortOptions

\* parseInt of a select's value
ParseInt(value) ==
    CASE value = "10" -> 10
      [] value = "4" -> 4
      [] OTHER -> NaN

\* dataService.filterByLocation(location): a filter of all of hospitalsData
FilterByLocation(location) ==
    LET InLocation(hospital) ==
            /\ hospital.CITY # Empty
            /\ Includes(ToLowerCase(hospital.CITY), ToLowerCase(location))
    IN IF location = Empty THEN hospitalsData ELSE SelectSeq(hospitalsData, InLocation)

\* the test of filterByBudget: cost is hospital.averageCost || 0, a fraction
InBudget(hospital, budgetRange) ==
    LET n == hospital.averageCost.n
        d == hospital.averageCost.d
    IN CASE budgetRange = "0-1000" -> n >= 0 /\ n <= 1000 * d
         [] budgetRange = "1000-5000" -> n > 1000 * d /\ n <= 5000 * d
         [] budgetRange = "5000-10000" -> n > 5000 * d /\ n <= 10000 * d
         [] budgetRange = "10000+" -> n > 10000 * d
         [] OTHER -> TRUE

FilterByBudget(hospitals, budgetRange) ==
    LET Affordable(hospital) == InBudget(hospital, budgetRange)
    IN SelectSeq(hospitals, Affordable)

\* hospital.distance, with the distances dist
DistanceOf(dist, hospital) ==
    IF PositionOf(hospital) \in DOMAIN dist THEN dist[PositionOf(hospital)] ELSE Undefined

\* parseFloat(hospital.rating) in tenths, NaN without a rating
RatingOf(hospital) ==
    IF PositionOf(hospital) \in DOMAIN ratings THEN ratings[PositionOf(hospital)].rating
    ELSE NaN

\* what filterByDistance can assign to a hospital without a distance: a random
\* mileage in "v3", the mileage from the city's coordinates or a random one in
\* "p5", the mileage from the hospital's coordinates or null in "p6" (always
\* null for the aggregates of js/data-service.js, which have no coordinates)
DistanceOutcomes(v) ==
    IF v = "p6"
    THEN IF dataScript = "data-service.js" THEN { Null } ELSE Miles \cup { Null }
    ELSE Miles

\* the hospitals of the list that filterByDistance gives a distance: those
\* whose distance is undefined, as positions in hospitalsData
WithoutDistance(hospitals) ==
    { i \in 1..Len(hospitalsData) :
        /\ \E k \in 1..Len(hospitals) : PositionOf(hospitals[k]) = i
        /\ DistanceOf(distance, hospitalsData[i]) = Undefined }

\* the map step of filterByDistance: the distances after it
AssignDistances(hospitals, chosen) ==
    [i \in 1..Len(hospitalsData) |->
        IF i \in WithoutDistance(hospitals) THEN chosen[i]
        ELSE DistanceOf(distance, hospitalsData[i])]

\* the filter step of filterByDistance
WithinDistance(v, dist, hospital, maxDistance) ==
    IF v = "p6"
    THEN DistanceOf(dist, hospital) # Null /\ DistanceOf(dist, hospital) <= maxDistance
    ELSE DistanceOf(dist, hospital) <= maxDistance

\* parseFloat(hospital.rating) >= minRating
RatedAtLeast(hospital, minRating) ==
    RatingOf(hospital) # NaN /\ RatingOf(hospital) >= 10 * minRating

MaxCases(hospitals) ==
    IF hospitals = <<>> THEN 0
    ELSE CHOOSE m \in { hospitals[k].totalCases : k \in 1..Len(hospitals) } :
            \A k \in 1..Len(hospitals) : hospitals[k].totalCases <= m

\* the score of 'recommended', times 250 * maxCases
Score(hospital, dist, maxCases) ==
    LET rating == IF RatingOf(hospital) = NaN THEN 0 ELSE RatingOf(hospital)
        d == DistanceOf(dist, hospital)
        distOr50 == IF d \in { Undefined, Null, 0 } THEN 50 ELSE d
    IN IF userLocation # "null"
       THEN 2 * rating * maxCases + 100 * hospital.totalCases
            + maxCases * (50 - Min(distOr50, 50))
       ELSE 3 * rating * maxCases + 100 * hospital.totalCases

\* hospital.distance || 0, and in "p6" hospital.distance || Infinity
DistanceKey(v, dist, hospital) ==
    LET d == DistanceOf(dist, hospital)
    IN IF d \in { Undefined, Null, 0 } THEN (IF v = "p6" THEN Infinity ELSE 0) ELSE d

\* the comparator of sortHospitals gives a positive number on (a, b)
ComesAfter(v, sortBy, dist, maxCases, a, b) ==
    CASE sortBy = "price-low" ->
            a.averageCost.n * b.averageCost.d > b.averageCost.n * a.averageCost.d
      [] sortBy = "price-high" ->
            b.averageCost.n * a.averageCost.d > a.averageCost.n * b.averageCost.d
      [] sortBy = "rating-high" ->
            RatingOf(a) # NaN /\ RatingOf(b) # NaN /\ RatingOf(b) > RatingOf(a)
      [] sortBy = "cases-high" -> b.totalCases > a.totalCases
      [] sortBy = "distance" ->
            userLocation # "null" /\ DistanceKey(v, dist, a) > DistanceKey(v, dist, b)
      [] OTHER -> Score(b, dist, maxCases) > Score(a, dist, maxCases)

\* Array.prototype.sort, which is stable: the elements one by one, each put
\* behind the last element that does not come after it
RECURSIVE SortInto(_, _, _, _, _, _)
SortInto(v, sortBy, dist, maxCases, sorted, rest) ==
    IF rest = <<>> THEN sorted
    ELSE LET x == Head(rest)
             stays == { i \in 1..Len(sorted) :
                          ~ComesAfter(v, sortBy, dist, maxCases, sorted[i], x) }
             k == IF stays = {} THEN 0 ELSE CHOOSE i \in stays : \A j \in stays : j <= i
         IN SortInto(v, sortBy, dist, maxCases,
                     SubSeq(sorted, 1, k) \o <<x>> \o SubSeq(sorted, k + 1, Len(sorted)),
                     Tail(rest))

SortHospitals(v, hospitals, sortBy, dist) ==
    SortInto(v, sortBy, dist, MaxCases(hospitals), <<>>, hospitals)

\* the results applyFilters reaches before the distance filter, with
\* this.filteredHospitals at list
BeforeDistanceOn(list, fv) ==
    LET results == IF Len(list) # 0 THEN list ELSE hospitalsData
        budgeted == IF fv.budget # "any" THEN FilterByBudget(results, fv.budget)
                    ELSE results
    IN IF fv.city # sAll THEN FilterByLocation(fv.city) ELSE budgeted

BeforeDistance(fv) == BeforeDistanceOn(filteredHospitals, fv)

\* applyFilters() with the selects at fv and this.filteredHospitals at list
ApplyFiltersOn(list, fv) ==
    LET located == BeforeDistanceOn(list, fv)
        byDistance == /\ fv.distance # "any"
                      /\ userLocation # "null"
                      /\ ParseInt(fv.distance) # NaN
        byRating == fv.rating # "any" /\ ParseInt(fv.rating) # NaN
        assigned == IF byDistance THEN WithoutDistance(located) ELSE {}
    IN \E chosen \in [assigned -> DistanceOutcomes(variant)] :
         /\ distance' = IF byDistance THEN AssignDistances(located, chosen) ELSE distance
         /\ LET Near(hospital) ==
                    WithinDistance(variant, distance', hospital, ParseInt(fv.distance))
                Rated(hospital) == RatedAtLeast(hospital, ParseInt(fv.rating))
                near == IF byDistance THEN SelectSeq(located, Near) ELSE located
                rated == IF byRating THEN SelectSeq(near, Rated) ELSE near
            IN filteredHospitals' = SortHospitals(variant, rated, fv.sortBy, distance')
         /\ currentPage' = 1
         /\ RenderHospitals(filteredHospitals', 1)

ApplyFilters(fv) == ApplyFiltersOn(filteredHospitals, fv)

\* the user sets a select to another value: its change listener runs applyFilters
ChangeFilter(element, value) ==
    /\ aggPc = "done"
    /\ value # filterValues[element]
    /\ filterValues' = [filterValues EXCEPT ![element] = value]
    /\ ApplyFilters(filterValues')
    /\ UNCHANGED <<aggVars, variant, mainScript, ratings, userLocation>>
    /\ UNCHANGED <<authVars, compareVars, loadVars, queryVars, sessionVars>>

\* initialize() on the data file: loadHospitalsData, the user's location (in
\* "v3" it stays null when the browser gives none, the others take a default
\* one), and the display of all hospitals
InitializeOnFile(located) ==
    /\ aggPc = "idle"
    /\ rawHospitalEntries' = ParseCSV(dataScript, csvText)
    /\ hospitalMap' = ProcessAll(<<>>, rawHospitalEntries')
    /\ foldedInto' = [i \in 1..Len(rawHospitalEntries') |->
                         IF Skipped(rawHospitalEntries'[i]) THEN 0
                         ELSE IndexOf(hospitalMap', HospitalKey(rawHospitalEntries'[i].NAME,
                                                                rawHospitalEntries'[i].CITY))]
    /\ hospitalsData' = hospitalMap'
    /\ aggPc' = "done"
    /\ loads' = loads + 1
    /\ IF dataScript = "data-service.js"
       THEN ratings' \in [1..Len(hospitalsData') -> MockRatings]
       ELSE ratings' = <<>>
    /\ distance' = <<>>
    /\ userLocation' = IF located \/ variant # "v3" THEN "located" ELSE "null"
    /\ filteredHospitals' = hospitalsData'
    /\ RenderHospitals(filteredHospitals', currentPage)
    /\ UNCHANGED <<variant, mainScript, currentPage, dataScript, csvText, filterValues>>
    /\ UNCHANGED <<authVars, compareVars, queryVars, sessionVars>>

InitFilter ==
    /\ InitAuth /\ InitCompare
    /\ rawHospitalEntries = <<>>
    /\ hospitalMap = <<>>
    /\ foldedInto = <<>>
    /\ hospitalsData = <<>>
    /\ aggPc = "idle"
    /\ variant \in FilterVariants
    /\ mainScript = "main.js"
    /\ filteredHospitals = <<>>
    /\ currentPage = 1
    /\ hospitalsToShow = <<>>
    /\ pageControls = {}
    /\ dataScript \in DataScripts
    /\ csvText = SampleText
    /\ loads = 0
    /\ ratings = <<>>
    /\ distance = <<>>
    /\ searchCall = NoCall
    /\ comparisonCall = NoCall
    /\ categoryCall = NoCall
    /\ InitSession
    /\ filterValues = DefaultFilters
    /\ userLocation = "null"

LoadPage == \E located \in BOOLEAN : InitializeOnFile(located)

ChangeSelect ==
    \E element \in DOMAIN DefaultFilters :
        \E value \in FilterOptions(element) : ChangeFilter(element, value)

NextFilter == LoadPage \/ ChangeSelect

SpecFilter == InitFilter /\ [][NextFilter]_vars

(***************************************************************************)
(* Claims about the filters, checked under SpecFilter.                     *)
(***************************************************************************)
\* C11: after applyFilters every hospital of filteredHospitals satisfies every
\* filter that is active: it is in the budget range, its city matches the city
\* select, it is within the distance (when a location is known) and its
\* rating is at least the minimum.
C11_FiltersCompose ==
    aggPc = "done" =>
        \A k \in 1..Len(filteredHospitals) :
            LET hospital == filteredHospitals[k]
            IN /\ filterValues.budget # "any" => InBudget(hospital, filterValues.budget)
               /\ filterValues.city # sAll =>
                     Includes(ToLowerCase(hospital.CITY), ToLowerCase(filterValues.city))
               /\ (filterValues.distance # "any" /\ userLocation # "null") =>
                     /\ DistanceOf(distance, hospital) \in Nat
                     /\ DistanceOf(distance, hospital) <= ParseInt(filterValues.distance)
               /\ filterValues.rating # "any" =>
                     /\ RatingOf(hospital) # NaN
                     /\ RatingOf(hospital) >= 10 * ParseInt(filterValues.rating)

\* C19: once processHospitalData has finished, a step that is not a data load
\* leaves hospitalsData as it was, in membership, order and every field of
\* every aggregate, the rating, reviews and distance written on it included.
C19_AggregatesReadOnly ==
    [][(aggPc = "done" /\ aggPc' = "done") =>
          /\ hospitalsData' = hospitalsData
          /\ ratings' = ratings
          /\ \A i \in 1..Len(hospitalsData) :
                DistanceOf(distance', hospitalsData[i]) = DistanceOf(distance, hospitalsData[i])]_vars

(***************************************************************************)
(* DataService queries on the loaded data: searchHospitals,                *)
(* compareHospitalCosts with getTreatmentCost, and getCostCategory.        *)
(***************************************************************************)
sQueryKnee == <<"k", "n", "e", "e">>
sQueryAKnee == <<"a", " ", "k", "n", "e", "e">>
sQueryX == <<"x">>
sQueryZ == <<"Z">>

\* the texts typed into the search box, and the treatments of the comparison
Queries == { Empty, sQueryKnee, sQueryAKnee, sQueryX, sQueryZ }
Treatments == { Empty, sKnee, sQueryKnee }

\* String.prototype.split(' ')
RECURSIVE Split(_)
Split(str) ==
    IF \E i \in 1..Len(str) : str[i] = " "
    THEN LET i == CHOOSE k \in 1..Len(str) :
                      str[k] = " " /\ \A j \in 1..(k - 1) : str[j] # " "
         IN <<SubSeq(str, 1, i - 1)>> \o Split(SubSeq(str, i + 1, Len(str)))
    ELSE <<str>>

\* searchHospitals(query)
SearchHospitals(query) ==
    LET searchTerms == Split(ToLowerCase(query))
        SomeTermIn(text) == \E t \in 1..Len(searchTerms) : Includes(text, searchTerms[t])
        ByNameOrCity(hospital) ==
            SomeTermIn(ToLowerCase(hospital.NAME \o <<" ">> \o hospital.CITY))
        ByTreatment(hospital) ==
            \E k \in 1..Len(hospital.treatments) :
                SomeTermIn(ToLowerCase(hospital.treatments[k].key))
        matchingHospitals == SelectSeq(hospitalsData, ByNameOrCity)
    IN IF query = Empty THEN hospitalsData
       ELSE IF Len(matchingHospitals) > 0 THEN matchingHospitals
       ELSE SelectSeq(hospitalsData, ByTreatment)

\* the lists of hospitals a comparison can be asked for: the aggregates at a
\* set of positions, in the order of hospitalsData
Selections ==
    { SelectSeq(hospitalsData, LAMBDA hospital : PositionOf(hospital) \in chosen) :
        chosen \in SUBSET (1..Len(hospitalsData)) }

\* a search, once the data is loaded
Search(query) ==
    /\ aggPc = "idle"
    /\ loads >= 1
    /\ searchCall' = [called |-> TRUE, query |-> query, result |-> SearchHospitals(query)]
    /\ UNCHANGED <<comparisonCall, categoryCall>>
    /\ UNCHANGED <<aggVars, authVars, listVars, compareVars, loadVars, objVars, filterVars, sessionVars>>

\* a comparison of some of the loaded hospitals
CompareCosts(hospitals, treatment) ==
    /\ aggPc = "idle"
    /\ loads >= 1
    /\ comparisonCall' = [called |-> TRUE, hospitals |-> hospitals, treatment |-> treatment,
                          result |-> CompareHospitalCosts(hospitals, treatment)]
    /\ UNCHANGED <<searchCall, categoryCall>>
    /\ UNCHANGED <<aggVars, authVars, listVars, compareVars, loadVars, objVars, filterVars, sessionVars>>

InitQuery ==
    /\ InitAuth /\ InitList /\ InitCompare
    /\ rawHospitalEntries = <<>>
    /\ hospitalMap = <<>>
    /\ foldedInto = <<>>
    /\ hospitalsData = <<>>
    /\ aggPc = "idle"
    /\ dataScript \in DataScripts
    /\ csvText = SampleText
    /\ loads = 0
    /\ ratings = <<>>
    /\ distance = <<>>
    /\ searchCall = NoCall
    /\ comparisonCall = NoCall
    /\ categoryCall = NoCall
    /\ InitSession
    /\ filterValues = DefaultFilters
    /\ userLocation = "null"

SearchStep == \E query \in Queries : Search(query)

CompareStep == \E hospitals \in Selections : \E treatment \in Treatments :
    CompareCosts(hospitals, treatment)

NextQuery ==
    StartLoad \/ ProcessNext \/ FinishProcess \/ FinishLoad \/ SearchStep \/ CompareStep

SpecQuery == InitQuery /\ [][NextQuery]_vars

(***************************************************************************)
(* Claims about the queries, checked under SpecQuery.                      *)
(***************************************************************************)
\* some term of the query is in the text, letter case aside
TermMatches(query, text) ==
    \E t \in 1..Len(Split(ToLowerCase(query))) :
        Includes(ToLowerCase(text), Split(ToLowerCase(query))[t])

\* C12: searchHospitals with a non-empty query returns exactly the hospitals of
\* hospitalsData, in their order, for which some term of the query is part of
\* the NAME, of the CITY or of one of the treatment keys, letter case aside.
C12_SearchReturnsEveryMatch ==
    (searchCall.called /\ searchCall.query # Empty) =>
        LET Matches(hospital) ==
                \/ TermMatches(searchCall.query, hospital.NAME)
                \/ TermMatches(searchCall.query, hospital.CITY)
                \/ \E k \in 1..Len(hospital.treatments) :
                       TermMatches(searchCall.query, hospital.treatments[k].key)
        IN searchCall.result = SelectSeq(hospitalsData, Matches)

\* C13: every entry of the result of compareHospitalCosts has as its cost the
\* average cost its aggregate records for the treatment (the treatment with
\* that key, else the first whose key contains the text, else the overall
\* average), so a positive cost where the aggregate's is positive.
C13_ComparisonCostIsTreatmentAverage ==
    comparisonCall.called =>
        \A k \in 1..Len(comparisonCall.result) :
            comparisonCall.result[k].cost =
                CostIn(comparisonCall.result[k].hospital, comparisonCall.treatment)

(***************************************************************************)
(* getCostCategory on whole-number costs.                                  *)
(***************************************************************************)
MaxCost == 4
MaxCompared == 2

\* a whole number as a cost
Whole(c) == [n |-> c, d |-> 1]

CostLists == UNION { [1..k -> { Whole(c) : c \in 0..MaxCost }] : k \in 0..MaxCompared }

\* a call getCostCategory(cost, allCosts)
Categorize(cost, allCosts) ==
    /\ categoryCall' = [called |-> TRUE, cost |-> cost, allCosts |-> allCosts,
                        result |-> GetCostCategory(cost, allCosts)]
    /\ UNCHANGED <<searchCall, comparisonCall>>
    /\ UNCHANGED <<aggVars, authVars, listVars, compareVars, loadVars, objVars, filterVars, sessionVars>>

CategorizeStep ==
    \E c \in 0..MaxCost : \E allCosts \in CostLists : Categorize(Whole(c), allCosts)

SpecCategory == InitQuery /\ [][CategorizeStep]_vars

\* C14: when the highest of allCosts is above the lowest, the category of a
\* cost c is 'low' exactly when c <= min + (max - min) / 3, 'high' exactly
\* when c >= min + 2 * (max - min) / 3, and 'medium' otherwise.
C14_CategoriesAreEqualThirds ==
    categoryCall.called =>
        LET costs == { categoryCall.allCosts[k].n : k \in 1..Len(categoryCall.allCosts) }
            min == CHOOSE c \in costs : \A x \in costs : c <= x
            max == CHOOSE c \in costs : \A x \in costs : x <= c
            c == categoryCall.cost.n
        IN (costs # {} /\ max > min) =>
              /\ categoryCall.result = "low" <=> 3 * c <= 3 * min + (max - min)
              /\ categoryCall.result = "high" <=> 3 * c >= 3 * min + 2 * (max - min)
              /\ categoryCall.result \in { "low", "medium", "high" }

(***************************************************************************)
(* The window of page numbers, checked under SpecPage.                     *)
(***************************************************************************)
\* the page numbers renderPagination has listed for the displayed page
RenderedWindow == PageWindow(variant, TotalPages(Len(filteredHospitals)), currentPage)

\* C15: in every version of HospitalService, when there is more than one page
\* the page numbers rendered are a contiguous range that contains the current
\* page, lies within 1..totalPages and has at most 5 entries.
C15_PageWindowIsBounded ==
    (aggPc = "done" /\ TotalPages(Len(filteredHospitals)) > 1) =>
        /\ 1 <= RenderedWindow[1]
        /\ RenderedWindow[1] <= currentPage
        /\ currentPage <= RenderedWindow[2]
        /\ RenderedWindow[2] <= TotalPages(Len(filteredHospitals))
        /\ RenderedWindow[2] - RenderedWindow[1] + 1 <= MaxVisiblePages

(***************************************************************************)
(* The page from its start: the main script awaits loadHospitalsData and   *)
(* then initialize(), which awaits loadHospitalsData again and then the    *)
(* browser's geolocation.  The constructor has installed the listeners of  *)
(* the search form and of the selects, so the user's events are handled    *)
(* while these are pending.  The data service is the one of part_007.      *)
(***************************************************************************)
SessionVariants == { "v3", "p6" }

sC == <<"C">>

\* the data file: six hospitals, three with a Hip case of 500 and three with
\* a Knee case of 2000, three in X and three in Y
SessionText ==
    << JoinCells(<<sA, sX, sHip, s500>>),
       JoinCells(<<sB, sX, sKnee, s2000>>),
       JoinCells(<<sB, sY, sHip, s500>>),
       JoinCells(<<sA, sY, sKnee, s2000>>),
       JoinCells(<<sC, sX, sHip, s500>>),
       JoinCells(<<sC, sY, sKnee, s2000>>) >>

\* what the user types into the treatment and location inputs
TreatmentInputs == { Empty, sQueryKnee }
LocationInputs == { Empty, sQueryX }

\* the selects the user changes
SessionSelects == { "budget", "city", "rating", "sortBy" }

\* the selects the main script of part_009 gives a second change listener
MainScriptFilters == { "budget", "city", "distance", "sortBy" }

\* dataService.searchByTreatmentAndLocation(treatment, location): the
\* aggregates have no DESCRIPTION, and their ADDRESS is ''
SearchByTreatmentAndLocation(treatment, location) ==
    LET ByTreatment(hospital) ==
            \/ /\ hospital.NAME # Empty
               /\ Includes(ToLowerCase(hospital.NAME), ToLowerCase(treatment))
            \/ \E k \in 1..Len(hospital.treatments) :
                  Includes(ToLowerCase(hospital.treatments[k].key), ToLowerCase(treatment))
        ByLocation(hospital) ==
            /\ hospital.CITY # Empty
            /\ Includes(ToLowerCase(hospital.CITY), ToLowerCase(location))
        treated == IF treatment # Empty THEN SelectSeq(hospitalsData, ByTreatment)
                   ELSE hospitalsData
    IN IF treatment = Empty /\ location = Empty THEN hospitalsData
       ELSE IF location # Empty THEN SelectSeq(treated, ByLocation)
       ELSE treated

\* a pending loadHospitalsData resolves: the file is parsed and aggregated
LoadResolved ==
    /\ initPc \in { "loading", "reloading" }
    /\ ~pendingApply
    /\ rawHospitalEntries' = ParseCSV(dataScript, csvText)
    /\ hospitalMap' = ProcessAll(<<>>, rawHospitalEntries')
    /\ foldedInto' = [i \in 1..Len(rawHospitalEntries') |->
                         IF Skipped(rawHospitalEntries'[i]) THEN 0
                         ELSE IndexOf(hospitalMap', HospitalKey(rawHospitalEntries'[i].NAME,
                                                                rawHospitalEntries'[i].CITY))]
    /\ hospitalsData' = hospitalMap'
    /\ aggPc' = "done"
    /\ loads' = loads + 1
    /\ IF dataScript = "data-service.js"
       THEN ratings' \in [1..Len(hospitalsData') -> MockRatings]
       ELSE ratings' = <<>>
    /\ distance' = <<>>
    /\ initPc' = IF initPc = "loading" THEN "reloading" ELSE "locating"
    /\ UNCHANGED <<dataScript, csvText, lastSearch, pendingApply>>
    /\ UNCHANGED <<authVars, listVars, compareVars, queryVars, filterVars>>

\* the geolocation request settles and initialize() runs to its end: the
\* location, the city options, and the display of all hospitals
LocationSettled(found) ==
    /\ initPc = "locating"
    /\ ~pendingApply
    /\ userLocation' = IF found THEN "position"
                       ELSE IF variant = "v3" THEN userLocation
                       ELSE "default"
    /\ filteredHospitals' = hospitalsData
    /\ RenderHospitals(filteredHospitals', currentPage)
    /\ initPc' = "done"
    /\ UNCHANGED <<variant, mainScript, currentPage, filterValues, lastSearch, pendingApply>>
    /\ UNCHANGED <<aggVars, authVars, compareVars, loadVars, objVars, queryVars>>

\* the search form is submitted: handleSearch()
HandleSearch(treatmentInput, locationInput) ==
    /\ ~pendingApply
    /\ LET treatment == Trim(treatmentInput)
           location == Trim(locationInput)
           hospitals == SearchByTreatmentAndLocation(treatment, location)
       IN /\ lastSearch' = [called |-> TRUE, treatment |-> treatment,
                            location |-> location, result |-> hospitals]
          /\ ApplyFiltersOn(hospitals, filterValues)
    /\ UNCHANGED <<variant, mainScript, filterValues, userLocation, ratings, initPc,
                   pendingApply>>
    /\ UNCHANGED <<aggVars, authVars, compareVars, loadVars, queryVars>>

\* the user sets a select to another value: the listener the constructor
\* installed runs applyFilters; the listener the main script of part_009 adds
\* after initialize() is still to run.  The city select has its cities only
\* after populateCityFilter.
SelectChange(element, value) ==
    /\ ~pendingApply
    /\ value # filterValues[element]
    /\ element = "city" => initPc = "done"
    /\ filterValues' = [filterValues EXCEPT ![element] = value]
    /\ ApplyFilters(filterValues')
    /\ pendingApply' = (/\ mainScript = "part_009"
                        /\ initPc = "done"
                        /\ element \in MainScriptFilters)
    /\ UNCHANGED <<variant, mainScript, userLocation, ratings, initPc, lastSearch>>
    /\ UNCHANGED <<aggVars, authVars, compareVars, loadVars, queryVars>>

\* the second listener of the change event: applyFilters() again
SecondListener ==
    /\ pendingApply
    /\ ApplyFilters(filterValues)
    /\ pendingApply' = FALSE
    /\ UNCHANGED <<variant, mainScript, filterValues, userLocation, ratings, initPc,
                   lastSearch>>
    /\ UNCHANGED <<aggVars, authVars, compareVars, loadVars, queryVars>>

\* a click on a reset button: resetFilters()
ResetFilters ==
    /\ ~pendingApply
    /\ filterValues' = DefaultFilters
    /\ ApplyFilters(DefaultFilters)
    /\ UNCHANGED <<variant, mainScript, userLocation, ratings, initPc, lastSearch,
                   pendingApply>>
    /\ UNCHANGED <<aggVars, authVars, compareVars, loadVars, queryVars>>

InitSessionPage ==
    /\ InitAuth /\ InitCompare
    /\ rawHospitalEntries = <<>>
    /\ hospitalMap = <<>>
    /\ foldedInto = <<>>
    /\ hospitalsData = <<>>
    /\ aggPc = "idle"
    /\ variant \in SessionVariants
    /\ mainScript \in MainScripts
    /\ filteredHospitals = <<>>
    /\ currentPage = 1
    /\ hospitalsToShow = <<>>
    /\ pageControls = {}
    /\ dataScript = "part_007"
    /\ csvText = SessionText
    /\ loads = 0
    /\ ratings = <<>>
    /\ distance = <<>>
    /\ searchCall = NoCall
    /\ comparisonCall = NoCall
    /\ categoryCall = NoCall
    /\ filterValues = DefaultFilters
    /\ userLocation = "null"
    /\ initPc = "loading"
    /\ lastSearch = NoCall
    /\ pendingApply = FALSE

GeolocationSettles == \E found \in BOOLEAN : LocationSettled(found)

SubmitSearch ==
    \E treatment \in TreatmentInputs : \E location \in LocationInputs :
        HandleSearch(treatment, location)

ChangeSessionSelect ==
    \E element \in SessionSelects :
        \E value \in FilterOptions(element) : SelectChange(element, value)

ClickPage == ~pendingApply /\ TurnPage

NextSession ==
    \/ LoadResolved
    \/ GeolocationSettles
    \/ SubmitSearch
    \/ ChangeSessionSelect
    \/ SecondListener
    \/ ResetFilters
    \/ ClickPage

SpecSession == InitSessionPage /\ [][NextSession]_vars

\* the hospitals of one list that are not in another
NotIn(list, other) ==
    { i \in 1..Len(list) : \A j \in 1..Len(other) : other[j] # list[i] }

SameHospitals(list, other) == NotIn(list, other) = {} /\ NotIn(other, list) = {}

\* the list resetFilters is to restore
MostRecentSearch == IF lastSearch.called THEN lastSearch.result ELSE hospitalsData

\* C21: once initialize() has run to its end, userLocation is a coordinate:
\* the position the browser gave or, when geolocation failed, the default
\* one; it is never null.
C21_LocationNeverNull == initPc = "done" => userLocation # "null"

\* C22: when initialize() resumes from the geolocation request after a
\* search or a filter change was handled, the list it leaves is the one that
\* search or change produced, not the full list.
C22_ResumeKeepsSearch ==
    [][(/\ initPc = "locating"
        /\ initPc' = "done"
        /\ lastSearch.called \/ filterValues # DefaultFilters)
       => filteredHospitals' = filteredHospitals]_vars

\* C24: after a search that found hospitals, a change of the filters or of
\* the sort order on the initialized page leaves only hospitals of the most
\* recent search result in filteredHospitals.
C24_FiltersOnlyNarrow ==
    [][(/\ lastSearch.called
        /\ Len(lastSearch.result) # 0
        /\ initPc = "done"
        /\ ChangeSessionSelect)
       => NotIn(filteredHospitals', lastSearch.result) = {}]_vars

\* C25: applyFilters() run a second time on unchanged filters leaves the
\* list the first run left, also when the first run left it empty.
C25_ApplyFiltersIdempotent ==
    [][SecondListener => filteredHospitals' = filteredHospitals]_vars

\* C26: on the initialized page resetFilters() leaves exactly the hospitals of the most recent
\* search result, all hospitals when there was no search.
C26_ResetRestoresSearch ==
    [][(initPc = "done" /\ ResetFilters)
       => SameHospitals(filteredHospitals', MostRecentSearch)]_vars

\* C28: currentPage is a page of the list, every step that replaces
\* filteredHospitals leaves currentPage at 1, and a pagination click sets
\* only a page that exists.
C28_PageFollowsList ==
    [][/\ currentPage' \in 1..Max(1, TotalPages(Len(filteredHospitals')))
       /\ filteredHospitals' # filteredHospitals => currentPage' = 1]_vars

====
